---- MODULE Spec2Model ----
(***************************************************************************)
(* Incremental persistence of a streamed chat turn.                        *)
(*                                                                         *)
(* The chat route (app/api/chat/route.ts, POST) authenticates a request,   *)
(* starts a bounded multi-step generation and, after every step, runs the  *)
(* onStepFinish handler: it normalizes the step's content items into       *)
(* message parts, builds a batch (the user message on the first step, the  *)
(* assistant message of the step) and awaits saveMessagesToDB.             *)
(*                                                                         *)
(* saveMessagesToDB lives in ./SaveToDbIncremental, which is not part of   *)
(* the sources at hand; it is modelled from section 4.3 of the             *)
(* specification (upsert of the message row, insert-if-absent of a part    *)
(* keyed by message id and order index).                                   *)
(***************************************************************************)
EXTENDS Integers, Sequences, FiniteSets, TLC

VARIABLES
    pc,                 \* per request: "idle", "rejected", "streaming", "finished"
    status,             \* per request: HTTP status of the response (0: none yet)
    session,            \* per request: session.sub, or NoSession
    chatSessionId,      \* per request: body.chatId, or NoChatId
    messages,           \* per request: body.messages ?? []
    assistantMessageId, \* per request: crypto.randomUUID()
    stepCount,          \* per request: let stepCount = 0
    userMessageSaved,   \* per request: let userMessageSaved = false
    stream,             \* per request: the client-visible stream
    steps,              \* per request: what each onStepFinish invocation did
    request,            \* per request: the incoming request
    db,                 \* the durable store, shared by all requests
    providerError,      \* per request: the error the provider raised, or NoError
    running,            \* per request: onStepFinish invocations not yet returned
    aborted,            \* per request: the caller's abort signal has fired
    confirm,            \* the email confirmation route: its request and response
    callback,           \* the auth callback route: its request and its response
    logs,               \* the entries written through the logger
    isDevelopment       \* Logger.isDevelopment

\* the state of the auth routes and of the logger
authVars == <<callback, confirm, logs, isDevelopment>>

\* the state of the chat route and of the store
chatVars == <<pc, status, session, chatSessionId, messages, assistantMessageId,
              stepCount, userMessageSaved, stream, steps, request, db,
              providerError, running, aborted>>

vars == <<chatVars, authVars>>

-----------------------------------------------------------------------------
(* Bounds of the model *)

\* steps a modelled turn produces at most (never more than StepLimit)
MaxSteps == 4

\* content items of one step in the Normalizer specification
MaxItems == 2

(* Program constants *)

\* stopWhen: stepCountIs(5)
StepLimit == 5

-----------------------------------------------------------------------------
(* Requests *)

AllTurns == {"t1", "t2"}
OneTurn == {"t1"}

NoSession == "no-session"
NoChatId == "no-chat-id"
NoId == "no-id"

UserOf(t) == IF t = "t1" THEN "user-1" ELSE "user-2"
ChatOf(t) == IF t = "t1" THEN "chat-1" ELSE "chat-2"
UuidOf(t) == IF t = "t1" THEN {"asst-1a", "asst-1b"} ELSE {"asst-2a", "asst-2b"}

TextPart(body) == [type |-> "text", state |-> "", text |-> body]

UserMsg(id) == [id |-> id, role |-> "user", parts |-> <<TextPart("question")>>]
PriorAssistantMsg(id) == [id |-> id, role |-> "assistant", parts |-> <<TextPart("earlier answer")>>]

FirstQuestionId(t) == IF t = "t1" THEN "t1-u1" ELSE "t2-u1"
PriorAnswerId(t) == IF t = "t1" THEN "t1-a0" ELSE "t2-a0"
FollowUpId(t) == IF t = "t1" THEN "t1-u2" ELSE "t2-u2"

\* message lists a request body can carry: none, a first question, a list
\* ending in an assistant message, a follow-up question
MessageLists(t) ==
    { <<>>,
      <<UserMsg(FirstQuestionId(t))>>,
      <<UserMsg(FirstQuestionId(t)), PriorAssistantMsg(PriorAnswerId(t))>>,
      <<UserMsg(FirstQuestionId(t)), PriorAssistantMsg(PriorAnswerId(t)),
        UserMsg(FollowUpId(t))>> }

-----------------------------------------------------------------------------
(* Step content items, as the provider emits them *)

Item(type, keys, val) == [type |-> type, keys |-> keys, val |-> val]

SourceKeys == {"url", "title", "mediaType", "filename"}

\* values of content.error of a tool-error item: undefined, null, a value
\* whose toString() yields "", an Error, an object without a toString method
\* (Object.create(null))
ErrorValues == {"undefined", "null", "str:", "str:Error: boom", "bare-object"}

TextItem == Item("text", {}, "answer")
ReasoningItem == Item("reasoning", {}, "thinking")
ToolCallItem == Item("tool-call", {}, "")
ToolResultItem == Item("tool-result", {}, "3 results")
FileItems == {Item("file", {}, b) : b \in {"", "QUJD"}}
SourceItems == {Item("source", k, "") : k \in SUBSET SourceKeys}
ToolErrorItems == {Item("tool-error", {}, e) : e \in ErrorValues}

Items ==
    {TextItem, ReasoningItem, ToolCallItem, ToolResultItem}
        \cup FileItems \cup SourceItems \cup ToolErrorItems

-----------------------------------------------------------------------------
(* Step Content Normalizer: the forEach of onStepFinish *)

Part(type, state, text) == [type |-> type, state |-> state, text |-> text]

\* v.toString() of a value that has a toString method
ToStringOf(v) == IF v = "str:" THEN "" ELSE "Error: boom"

\* content.error?.toString() raises a TypeError when the value is neither
\* null nor undefined and has no callable toString
ToStringThrows(v) == v = "bare-object"

\* content.error?.toString() || 'Tool error occurred'
ErrorText(v) ==
    IF v \in {"undefined", "null"} THEN "Tool error occurred"
    ELSE IF ToStringOf(v) = "" THEN "Tool error occurred"
    ELSE ToStringOf(v)

\* content.file.base64 ? `data:${mediaType};base64,${base64}` : ''
FileUrl(b) == IF b = "" THEN "" ELSE "data:image/png;base64,QUJD"

\* mutant: a source is classified on either field of a pair, not on both
SourcePartEitherKey(c) ==
    IF "url" \in c.keys \/ "title" \in c.keys
    THEN <<Part("source-url", "", "url")>>
    ELSE IF "mediaType" \in c.keys \/ "filename" \in c.keys
    THEN <<Part("source-document", "", "filename")>>
    ELSE <<>>

\* the if / else-if chain on content.type and, for a source, on the keys present
SourcePart(c) ==
    IF {"url", "title"} \subseteq c.keys
    THEN <<Part("source-url", "", "url")>>
    ELSE IF {"mediaType", "filename"} \subseteq c.keys
    THEN <<Part("source-document", "", "filename")>>
    ELSE <<>>

ToolErrorPart(c) ==
    <<Part("tool-searchUserDocument", "output-error", ErrorText(c.val))>>

\* the parts one content item pushes (none or one)
NormalizeItem(c) ==
    CASE c.type = "text" -> <<Part("text", "", c.val)>>
      [] c.type = "reasoning" -> <<Part("reasoning", "", c.val)>>
      [] c.type = "source" -> SourcePart(c)
      [] c.type = "file" -> <<Part("file", "", FileUrl(c.val))>>
      [] c.type = "tool-result" ->
            <<Part("tool-searchUserDocument", "output-available", c.val)>>
      [] c.type = "tool-error" -> ToolErrorPart(c)
      [] OTHER -> <<>>

\* the item makes the callback of forEach raise
ItemThrows(c) == c.type = "tool-error" /\ ToStringThrows(c.val)

\* stepResult.content.forEach(...): the parts pushed to uiMessage.parts, and
\* whether an item raised (the loop stops there and the exception leaves it)
RECURSIVE NormalizeFrom(_, _, _)
NormalizeFrom(content, i, acc) ==
    IF i > Len(content) THEN [threw |-> FALSE, parts |-> acc]
    ELSE IF ItemThrows(content[i]) THEN [threw |-> TRUE, parts |-> acc]
    ELSE NormalizeFrom(content, i + 1, acc \o NormalizeItem(content[i]))

NormalizeContent(content) == NormalizeFrom(content, 1, <<>>)

-----------------------------------------------------------------------------
(* Incremental Persistence Writer: saveMessagesToDB *)

EmptyStore == [messages |-> <<>>, parts |-> <<>>]

HasMessage(store, sid, id) ==
    \E i \in DOMAIN store.messages :
        store.messages[i].sessionId = sid /\ store.messages[i].id = id

HasPart(store, mid, order) ==
    \E i \in DOMAIN store.parts :
        store.parts[i].messageId = mid /\ store.parts[i].order = order

\* upsert of the message row by its identifier: insert if absent, else no-op
UpsertMessage(store, sid, uid, m) ==
    IF HasMessage(store, sid, m.id) THEN store
    ELSE [store EXCEPT !.messages =
            Append(@, [sessionId |-> sid, userId |-> uid, id |-> m.id, role |-> m.role])]

\* mutant: a plain insert, whatever is stored under the key
InsertPartAlways(store, mid, order, p) ==
    [store EXCEPT !.parts =
        Append(@, [messageId |-> mid, order |-> order, part |-> p])]

\* mutant: an upsert, the part stored under the key is replaced
InsertPartOverwrite(store, mid, order, p) ==
    IF HasPart(store, mid, order)
    THEN [store EXCEPT !.parts =
            [i \in DOMAIN @ |->
                IF @[i].messageId = mid /\ @[i].order = order
                THEN [messageId |-> mid, order |-> order, part |-> p]
                ELSE @[i]]]
    ELSE [store EXCEPT !.parts =
            Append(@, [messageId |-> mid, order |-> order, part |-> p])]

\* insert of one part, a no-op if (message id, order index) is taken
InsertPart(store, mid, order, p) ==
    IF HasPart(store, mid, order) THEN store
    ELSE [store EXCEPT !.parts =
            Append(@, [messageId |-> mid, order |-> order, part |-> p])]

\* the parts of one message, each at its position within the message
RECURSIVE InsertParts(_, _, _, _)
InsertParts(store, mid, parts, i) ==
    IF i > Len(parts) THEN store
    ELSE InsertParts(InsertPart(store, mid, i - 1, parts[i]), mid, parts, i + 1)

SaveMessage(store, sid, uid, m) ==
    InsertParts(UpsertMessage(store, sid, uid, m), m.id, m.parts, 1)

RECURSIVE SaveFrom(_, _, _, _, _)
SaveFrom(store, sid, uid, msgs, i) ==
    IF i > Len(msgs) THEN store
    ELSE SaveFrom(SaveMessage(store, sid, uid, msgs[i]), sid, uid, msgs, i + 1)

SaveMessagesToDB(store, call) ==
    SaveFrom(store, call.chatSessionId, call.userId, call.messages, 1)

-----------------------------------------------------------------------------
(* The auth callback route: its request *)

\* searchParams.get(...) of a parameter the URL does not carry
Absent == "absent"

NoCallback ==
    [arrived |-> FALSE, code |-> Absent, tokenHash |-> Absent, type |-> Absent,
     next |-> Absent, verify |-> "not-called", pathname |-> "", params |-> {}]

\* the email confirmation route before any request
NoConfirm ==
    [arrived |-> FALSE, origin |-> Absent, code |-> Absent, next |-> Absent,
     exchange |-> "not-called", target |-> Absent, pathname |-> "", params |-> {}]

-----------------------------------------------------------------------------
(* The chat route *)

NoRequest == [arrived |-> FALSE, hasSession |-> FALSE, chatId |-> NoChatId, messages |-> <<>>]

NoError == "none"

\* what the provider can raise: null, a string, an Error, another object
ProviderErrors == {"null", "string", "Error", "object"}

InitChat ==
    /\ pc = [t \in AllTurns |-> "idle"]
    /\ status = [t \in AllTurns |-> 0]
    /\ session = [t \in AllTurns |-> NoSession]
    /\ chatSessionId = [t \in AllTurns |-> NoChatId]
    /\ messages = [t \in AllTurns |-> <<>>]
    /\ assistantMessageId = [t \in AllTurns |-> NoId]
    /\ stepCount = [t \in AllTurns |-> 0]
    /\ userMessageSaved = [t \in AllTurns |-> FALSE]
    /\ stream = [t \in AllTurns |-> [state |-> "none", errors |-> {}]]
    /\ steps = [t \in AllTurns |-> <<>>]
    /\ request = [t \in AllTurns |-> NoRequest]
    /\ db = EmptyStore
    /\ providerError = [t \in AllTurns |-> NoError]
    /\ running = [t \in AllTurns |-> <<>>]
    /\ aborted = [t \in AllTurns |-> FALSE]

Init ==
    /\ InitChat
    /\ callback = NoCallback
    /\ confirm = NoConfirm
    /\ logs = <<>>
    /\ isDevelopment = FALSE

\* mutant: the body is validated before the session
ResponseStatusBodyFirst(hasSession, chatId) ==
    IF chatId = NoChatId THEN 400
    ELSE IF ~hasSession THEN 401
    ELSE 200

\* the two early returns of POST and the streamed response
ResponseStatus(hasSession, chatId) ==
    IF ~hasSession THEN 401
    ELSE IF chatId = NoChatId THEN 400
    ELSE 200

\* mutant: the user message is saved when the request arrives
StoreAtRequestSavesUser(t, msgs) ==
    IF Len(msgs) = 0 THEN db
    ELSE SaveMessage(db, ChatOf(t), UserOf(t), msgs[Len(msgs)])

\* the store when POST returns: nothing before streamText calls the Writer
StoreAtRequest(t, msgs) == db

\* POST up to the return of the response: the session check, the body, the
\* per-turn state, streamText(...) and toUIMessageStreamResponse(...)
POST(t) ==
    /\ pc[t] = "idle"
    /\ \E hasSession \in BOOLEAN, chatId \in {NoChatId, ChatOf(t)},
          msgs \in MessageLists(t), uuid \in UuidOf(t) :
        LET code == ResponseStatus(hasSession, chatId) IN
        /\ request' = [request EXCEPT ![t] =
                [arrived |-> TRUE, hasSession |-> hasSession, chatId |-> chatId,
                 messages |-> msgs]]
        /\ status' = [status EXCEPT ![t] = code]
        /\ session' = [session EXCEPT ![t] = IF hasSession THEN UserOf(t) ELSE NoSession]
        /\ IF code = 401
           THEN UNCHANGED <<chatSessionId, messages>>
           ELSE /\ chatSessionId' = [chatSessionId EXCEPT ![t] = chatId]
                /\ messages' = [messages EXCEPT ![t] = msgs]
        /\ IF code = 200
           THEN /\ pc' = [pc EXCEPT ![t] = "streaming"]
                /\ assistantMessageId' = [assistantMessageId EXCEPT ![t] = uuid]
                /\ stream' = [stream EXCEPT ![t].state = "open"]
           ELSE /\ pc' = [pc EXCEPT ![t] = "rejected"]
                /\ UNCHANGED <<assistantMessageId, stream>>
        /\ db' = IF code = 200 THEN StoreAtRequest(t, msgs) ELSE db
        /\ UNCHANGED <<stepCount, userMessageSaved, steps, providerError,
                       running, aborted, authVars>>

\* if (stepCount === 0 && !userMessageSaved) { const lastMessage = ...; if (lastMessage)
IncludeUserMessage(t) ==
    stepCount[t] = 0 /\ ~userMessageSaved[t] /\ Len(messages[t]) > 0

\* mutant: an identifier per step instead of the one of the turn
AssistantMessagePerStep(t, parts) ==
    [id |-> IF stepCount[t] = 0 THEN assistantMessageId[t] ELSE "asst-of-step",
     role |-> "assistant", parts |-> parts]

\* const uiMessage = { id: assistantMessageId, role: 'assistant', parts: [] }
\* with the parts the forEach pushed
AssistantMessage(t, parts) ==
    [id |-> assistantMessageId[t], role |-> "assistant", parts |-> parts]

\* mutant: no catch, an exception raised inside the handler leaves it
RethrowsRaised(raised) == raised

\* the catch of onStepFinish: whether an exception raised inside the try
\* leaves the handler
Rethrows(raised) == FALSE

\* mutant: the per-turn state is kept at module level, set by the first request
SaveCallModuleState(t, batch) ==
    [chatSessionId |-> chatSessionId["t1"], userId |-> session["t1"],
     messages |-> batch, isFirstStep |-> (stepCount["t1"] = 0),
     assistantMessageId |-> assistantMessageId["t1"]]

\* the arguments of saveMessagesToDB
SaveCall(t, batch) ==
    [chatSessionId |-> chatSessionId[t], userId |-> session[t], messages |-> batch,
     isFirstStep |-> (stepCount[t] = 0), assistantMessageId |-> assistantMessageId[t]]

NoLog == [step |-> -1, fields |-> {}]

\* console.error(`Error saving step ${stepCount} to database:`, error)
CatchLog(t) == [step |-> stepCount[t], fields |-> {"step", "error"}]

\* whether the forEach callback writes a warning for an item: no branch does
ItemWarns(c) == FALSE

\* the items of a step for which a warning is written
StepWarnings(content) == {k \in DOMAIN content : ItemWarns(content[k])}

\* one step-completion event: the whole onStepFinish handler for the step's
\* content; writeOk is whether the store accepts the write, if one is made
OnStepFinish(t, content, writeOk) ==
    LET includeUser == IncludeUserMessage(t)
        first == IF includeUser THEN <<messages[t][Len(messages[t])]>> ELSE <<>>
        norm == NormalizeContent(content)
        uiMessage == AssistantMessage(t, norm.parts)
        messagesToSave ==
            IF norm.threw THEN first
            ELSE first \o (IF Len(norm.parts) > 0 THEN <<uiMessage>> ELSE <<>>)
        called == ~norm.threw /\ Len(messagesToSave) > 0
        call == SaveCall(t, messagesToSave)
        raised == norm.threw \/ (called /\ ~writeOk)
        escaped == Rethrows(raised)
        outcome == IF norm.threw THEN "threw"
                   ELSE IF ~called THEN "skipped"
                   ELSE IF writeOk THEN "saved" ELSE "failed"
    IN
    /\ userMessageSaved' = [userMessageSaved EXCEPT ![t] = @ \/ includeUser]
    /\ db' = IF called /\ writeOk THEN SaveMessagesToDB(db, call) ELSE db
    /\ stepCount' = [stepCount EXCEPT ![t] = IF raised THEN @ ELSE @ + 1]
    /\ steps' = [steps EXCEPT ![t] = Append(@,
            [content |-> content, threw |-> norm.threw, parts |-> norm.parts,
             called |-> called, call |-> call, outcome |-> outcome,
             escaped |-> escaped,
             logged |-> IF raised THEN CatchLog(t) ELSE NoLog,
             warnings |-> StepWarnings(content)])]
    /\ pc' = [pc EXCEPT ![t] = IF escaped THEN "finished" ELSE @]
    /\ stream' = [stream EXCEPT ![t] =
            IF escaped THEN [state |-> "closed", errors |-> @.errors \cup {"handler"}]
            ELSE @]
    /\ UNCHANGED <<status, session, chatSessionId, messages, assistantMessageId,
                   request, providerError, aborted, authVars>>

-----------------------------------------------------------------------------
(* The Stream Driver: streamText with stopWhen: stepCountIs(5) *)

\* contents of a step in the turn specification
TurnContents ==
    { <<>>,
      <<TextItem>>,
      <<TextItem, ToolResultItem>>,
      <<ToolCallItem>>,
      <<Item("tool-error", {}, "bare-object")>> }

RECURSIVE SeqsUpTo(_, _)
SeqsUpTo(S, n) ==
    IF n = 0 THEN {<<>>}
    ELSE LET shorter == SeqsUpTo(S, n - 1)
         IN shorter \cup {Append(q, x) : q \in shorter, x \in S}

\* contents of a step in the Normalizer specification
AllContents == SeqsUpTo(Items, MaxItems)

StepBound == IF MaxSteps < StepLimit THEN MaxSteps ELSE StepLimit

\* a step ends: the driver awaits onStepFinish (an empty message list is an
\* invalid prompt: generation raises before any step)
StepFinish(t, contents) ==
    /\ pc[t] = "streaming"
    /\ Len(messages[t]) > 0
    /\ Len(steps[t]) < StepBound
    /\ \E content \in contents, writeOk \in BOOLEAN : OnStepFinish(t, content, writeOk)
    /\ UNCHANGED running

\* the model signals completion, or the step limit stops the turn
Finish(t) ==
    /\ pc[t] = "streaming"
    /\ Len(steps[t]) >= 1
    /\ pc' = [pc EXCEPT ![t] = "finished"]
    /\ stream' = [stream EXCEPT ![t].state = "closed"]
    /\ UNCHANGED <<status, session, chatSessionId, messages, assistantMessageId,
                   stepCount, userMessageSaved, steps, request, db, providerError,
                   running, aborted, authVars>>

\* mutant: no guard for null, the message of nothing is empty
ErrorHandlerNoNullGuard(error) ==
    CASE error = "null" -> ""
      [] error = "string" -> "rate limited"
      [] error = "Error" -> "provider failed"
      [] OTHER -> "{\"status\":500}"

\* errorHandler: 'unknown error' for null, the string itself, error.message
\* of an Error, JSON.stringify(error) otherwise
ErrorHandler(error) ==
    CASE error = "null" -> "unknown error"
      [] error = "string" -> "rate limited"
      [] error = "Error" -> "provider failed"
      [] OTHER -> "{\"status\":500}"

\* the provider raises: onError logs it, the stream carries errorHandler(error)
ProviderError(t) ==
    /\ pc[t] = "streaming"
    /\ \E error \in ProviderErrors :
        /\ providerError' = [providerError EXCEPT ![t] = error]
        /\ stream' = [stream EXCEPT ![t] =
                [state |-> "closed", errors |-> @.errors \cup {ErrorHandler(error)}]]
    /\ pc' = [pc EXCEPT ![t] = "finished"]
    /\ UNCHANGED <<status, session, chatSessionId, messages, assistantMessageId,
                   stepCount, userMessageSaved, steps, request, db, running,
                   aborted, authVars>>

Next ==
    \E t \in OneTurn :
        \/ POST(t)
        \/ StepFinish(t, TurnContents)
        \/ Finish(t)
        \/ ProviderError(t)

Spec == Init /\ [][Next]_vars

-----------------------------------------------------------------------------
(* The logger: src/lib/utils/logger.ts *)

Redacted == "[REDACTED]"

\* a field of a log context: a scalar value, or an object with its own fields
Field(key, value) == [key |-> key, value |-> value, nested |-> {}]
ObjectField(key, fields) == [key |-> key, value |-> "object", nested |-> fields]

\* the keys the routes log whose lower-case name includes one of 'password',
\* 'token', 'token_hash', 'code', 'secret', 'key'
SensitiveKey(key) ==
    key \in {"hasTokenHash", "hasCode", "tokenLength", "codeLength", "errorCode"}

\* sanitizeContext: the value of a top-level key with a sensitive name is
\* replaced, every other value is copied as it is
SanitizeContext(context) ==
    { IF SensitiveKey(f.key) THEN Field(f.key, Redacted) ELSE f : f \in context }

\* log: the entry written to the console
LogEntry(level, message, context) ==
    [level |-> level, message |-> message, context |-> SanitizeContext(context)]

\* debug writes in development only; info, warn and error always write
Written(development, level, message, context) ==
    IF level = "debug" /\ ~development THEN <<>>
    ELSE <<LogEntry(level, message, context)>>

-----------------------------------------------------------------------------
(* The auth callback route: src/app/api/auth/callback/route.ts *)

Codes == {Absent, "", "secret-code"}
TokenHashes == {Absent, "secret-hash"}
Types == {Absent, "", "email", "recovery"}
Nexts == {Absent, "/dashboard", "/account"}
VerifyOutcomes == {"error", "session", "no-session", "threw"}

\* !value of a string or null
Falsy(v) == v = Absent \/ v = ""

BoolText(b) == IF b THEN "true" ELSE "false"

\* code ?? token_hash_searchParam
TokenHash(code, tokenHash) == IF code # Absent THEN code ELSE tokenHash

\* searchParams.get('next') ?? '/'
NextUrl(next) == IF next = Absent THEN "/" ELSE next

\* Object.fromEntries(searchParams.entries())
SearchParams(code, tokenHash, type, next) ==
    { p \in { <<"code", code>>, <<"token_hash", tokenHash>>, <<"type", type>>,
              <<"next", next>> } : p[2] # Absent }

ParamNames(code, tokenHash, type, next) ==
    { p[1] : p \in SearchParams(code, tokenHash, type, next) }

\* mutant: the request is refused only when both are missing
MissingRequiredBoth(token, type) == Falsy(token) /\ Falsy(type)

\* if (!token_hash || !type)
MissingRequired(token, type) == Falsy(token) \/ Falsy(type)

\* mutant: the parameters of the request are left on the redirect
RedirectParamsKept(names, name) == names \cup {name}

\* redirectTo.searchParams after set(name, ...) and the four deletes
RedirectParams(names, name) ==
    (names \cup {name}) \ {"token_hash", "code", "type", "next"}

ReceivedContext(token, code, type, next) ==
    { Field("requestId", "req-1"), Field("hasTokenHash", BoolText(~Falsy(token))),
      Field("hasCode", BoolText(~Falsy(code))), Field("type", type),
      Field("nextUrl", NextUrl(next)), Field("userAgent", "unknown") }

MissingContext(token, code, tokenHash, type, next) ==
    { Field("requestId", "req-1"), Field("hasTokenHash", BoolText(~Falsy(token))),
      Field("hasType", BoolText(~Falsy(type))),
      ObjectField("searchParams",
          { Field(p[1], p[2]) : p \in SearchParams(code, tokenHash, type, next) }) }

\* token_hash.length of a token that passed the check
TokenLength(token) == "11"

VerifyContext(token, type) ==
    { Field("requestId", "req-1"), Field("type", type),
      Field("tokenLength", TokenLength(token)) }

OutcomeLog(development, type, next, outcome) ==
    CASE outcome = "error" ->
            Written(development, "error", "OTP verification failed",
                { Field("requestId", "req-1"), Field("type", type),
                  Field("errorCode", "otp_expired"), Field("errorStatus", "403"),
                  Field("errorMessage", "Token has expired or is invalid") })
      [] outcome = "session" ->
            Written(development, "info", "OTP verification successful",
                { Field("requestId", "req-1"), Field("type", type),
                  Field("userId", "user-1"), Field("userEmail", "a@example.com"),
                  Field("redirectTo", NextUrl(next)) })
      [] outcome = "no-session" ->
            Written(development, "warn",
                "OTP verification succeeded but no session returned",
                { Field("requestId", "req-1"), Field("type", type) })
      [] OTHER ->
            Written(development, "error", "Unexpected error during OTP verification",
                { Field("requestId", "req-1"), Field("type", type) })

\* GET: one callback request, up to the redirect it returns; outcome is what
\* supabase.auth.verifyOtp does when it is called
GET(code, tokenHash, type, next, outcome) ==
    LET token == TokenHash(code, tokenHash)
        names == ParamNames(code, tokenHash, type, next)
        received == Written(isDevelopment, "info", "Auth callback request received",
                        ReceivedContext(token, code, type, next))
        missing == MissingRequired(token, type)
    IN
    /\ ~callback.arrived
    /\ IF missing
       THEN /\ logs' = logs \o received
                \o Written(isDevelopment, "warn",
                       "Auth callback request missing required parameters",
                       MissingContext(token, code, tokenHash, type, next))
            /\ callback' = [arrived |-> TRUE, code |-> code, tokenHash |-> tokenHash,
                            type |-> type, next |-> next, verify |-> "not-called",
                            pathname |-> "/",
                            params |-> RedirectParams(names, "error")]
       ELSE /\ logs' = logs \o received
                \o Written(isDevelopment, "debug", "Attempting to verify OTP",
                       VerifyContext(token, type))
                \o OutcomeLog(isDevelopment, type, next, outcome)
            /\ callback' = [arrived |-> TRUE, code |-> code, tokenHash |-> tokenHash,
                            type |-> type, next |-> next, verify |-> outcome,
                            pathname |-> IF outcome = "session" THEN NextUrl(next)
                                         ELSE "/",
                            params |-> RedirectParams(names,
                                IF outcome = "session" THEN "message" ELSE "error")]
    /\ UNCHANGED <<chatVars, confirm, isDevelopment>>

-----------------------------------------------------------------------------
(* The email confirmation route: GET of the auth confirm route *)

Origins == {"https://app.example", "http://localhost:3000"}
ConfirmCodes == {Absent, "", "secret-code"}
ConfirmNexts ==
    {Absent, "/dashboard", "/account", "https://evil.example/x", "//evil.example/x"}
ExchangeOutcomes == {"error", "no-session", "session", "threw"}

\* searchParams.get('next') ?? '/signin'
ConfirmNext(next) == IF next = Absent THEN "/signin" ELSE next

SchemeOf(origin) == IF origin = "http://localhost:3000" THEN "http:" ELSE "https:"

\* new URL(url, origin).origin: a url with a scheme keeps its own origin, a
\* url that starts with // takes the scheme of the base and its own host, a
\* path takes the origin of the base
ResolvedOrigin(url, origin) ==
    CASE url = "https://evil.example/x" -> "https://evil.example"
      [] url = "//evil.example/x" -> SchemeOf(origin) \o "//evil.example"
      [] OTHER -> origin

\* new URL(url, origin).pathname
ResolvedPath(url) ==
    IF url \in {"https://evil.example/x", "//evil.example/x"} THEN "/x" ELSE url

ConfirmSearchParams(code, next) ==
    { p \in { <<"code", code>>, <<"next", next>> } : p[2] # Absent }

ConfirmOutcomeLog(development, next, outcome) ==
    CASE outcome = "error" ->
            Written(development, "error", "Failed to exchange code for session",
                { Field("requestId", "req-1"), Field("errorCode", "otp_expired"),
                  Field("errorStatus", "403"),
                  Field("errorMessage", "Token has expired or is invalid") })
      [] outcome = "no-session" ->
            Written(development, "warn",
                "Code exchange succeeded but no session returned",
                { Field("requestId", "req-1") })
      [] outcome = "session" ->
            Written(development, "info", "Email confirmation successful",
                { Field("requestId", "req-1"), Field("userId", "user-1"),
                  Field("userEmail", "a@example.com"),
                  Field("redirectTo", ConfirmNext(next)) })
      [] OTHER ->
            Written(development, "error", "Unexpected error during email confirmation",
                { Field("requestId", "req-1") })

\* GET: one confirmation request, up to the redirect it returns; outcome is
\* what supabase.auth.exchangeCodeForSession does when it is called
ConfirmGET(origin, code, next, outcome) ==
    LET received == Written(isDevelopment, "info", "Email confirmation request received",
                        { Field("requestId", "req-1"),
                          Field("hasCode", BoolText(~Falsy(code))),
                          Field("nextUrl", ConfirmNext(next)), Field("origin", origin) })
        signin == [arrived |-> TRUE, origin |-> origin, code |-> code, next |-> next,
                   exchange |-> "not-called", target |-> ResolvedOrigin("/signin", origin),
                   pathname |-> ResolvedPath("/signin"), params |-> {"error"}]
    IN
    /\ ~confirm.arrived
    /\ IF Falsy(code)
       THEN /\ logs' = logs \o received
                \o Written(isDevelopment, "warn",
                       "Email confirmation request missing code parameter",
                       { Field("requestId", "req-1"),
                         ObjectField("searchParams",
                            { Field(p[1], p[2]) : p \in ConfirmSearchParams(code, next) }) })
            /\ confirm' = signin
       ELSE /\ logs' = logs \o received
                \o Written(isDevelopment, "debug",
                       "Attempting to exchange code for session",
                       { Field("requestId", "req-1"),
                         Field("codeLength", TokenLength(code)) })
                \o ConfirmOutcomeLog(isDevelopment, next, outcome)
            /\ confirm' =
                IF outcome = "session"
                THEN [signin EXCEPT !.exchange = outcome,
                        !.target = ResolvedOrigin(ConfirmNext(next), origin),
                        !.pathname = ResolvedPath(ConfirmNext(next)),
                        !.params = {"message"}]
                ELSE [signin EXCEPT !.exchange = outcome]
    /\ UNCHANGED <<chatVars, callback, isDevelopment>>

NextConfirm ==
    \E origin \in Origins, code \in ConfirmCodes, next \in ConfirmNexts,
       outcome \in ExchangeOutcomes :
        ConfirmGET(origin, code, next, outcome)

\* the logger is constructed in development or in production
InitCallback ==
    /\ InitChat
    /\ callback = NoCallback
    /\ confirm = NoConfirm
    /\ logs = <<>>
    /\ isDevelopment \in BOOLEAN

NextCallback ==
    \E code \in Codes, tokenHash \in TokenHashes, type \in Types, next \in Nexts,
       outcome \in VerifyOutcomes :
        GET(code, tokenHash, type, next, outcome)

SpecCallback == InitCallback /\ [][NextCallback]_vars

SpecConfirm == InitCallback /\ [][NextConfirm]_vars

\* mutant: no stop condition
StopWhenNever(t) == FALSE

\* stopWhen: stepCountIs(5)
StopWhen(t) == Len(steps[t]) >= StepLimit

\* contents of a step in the step-limit specification
LimitContents == {<<>>, <<TextItem>>}

\* a step ends, in a turn that runs for as long as the model asks for steps
StepFinishToLimit(t, contents) ==
    /\ pc[t] = "streaming"
    /\ Len(messages[t]) > 0
    /\ ~StopWhen(t)
    /\ \E content \in contents, writeOk \in BOOLEAN : OnStepFinish(t, content, writeOk)
    /\ UNCHANGED running

NextStepLimit ==
    \E t \in OneTurn :
        \/ POST(t)
        \/ StepFinishToLimit(t, LimitContents)
        \/ Finish(t)

SpecStepLimit == Init /\ [][NextStepLimit]_vars

\* contents of a step in the append specification: steps that differ in the
\* part they put first and in the number of their parts
AppendContents == {<<TextItem>>, <<ToolResultItem>>, <<ToolResultItem, TextItem>>}

NextAppend ==
    \E t \in OneTurn :
        \/ POST(t)
        \/ StepFinish(t, AppendContents)
        \/ Finish(t)

SpecAppend == Init /\ [][NextAppend]_vars

\* steps of each of two concurrent turns
ConcurrentSteps == 2

\* a step of one of two turns that stream at the same time
StepFinishConcurrent(t, contents) ==
    /\ Len(steps[t]) < ConcurrentSteps
    /\ StepFinish(t, contents)

\* two requests, of different users and sessions, in any interleaving
NextConcurrent ==
    \E t \in AllTurns :
        \/ POST(t)
        \/ StepFinishConcurrent(t, LimitContents)
        \/ Finish(t)

SpecConcurrent == Init /\ [][NextConcurrent]_vars

\* the signal of the incoming request, which fires when the caller aborts
CallerSignal == "req.signal"

\* const signal = body.signal: a field of the body parsed by req.json()
BodySignal == "body.signal"

\* abortSignal: signal
StreamAbortSignal == BodySignal

\* the caller aborts: generation ends if streamText was given the signal that
\* fires; result.consumeStream() reads the stream to its end without the caller
Abort(t) ==
    /\ pc[t] = "streaming"
    /\ ~aborted[t]
    /\ aborted' = [aborted EXCEPT ![t] = TRUE]
    /\ IF StreamAbortSignal = CallerSignal
       THEN /\ pc' = [pc EXCEPT ![t] = "finished"]
            /\ stream' = [stream EXCEPT ![t].state = "closed"]
       ELSE UNCHANGED <<pc, stream>>
    /\ UNCHANGED <<status, session, chatSessionId, messages, assistantMessageId,
                   stepCount, userMessageSaved, steps, request, db, providerError,
                   running, authVars>>

NextAbort ==
    \E t \in OneTurn :
        \/ POST(t)
        \/ StepFinish(t, LimitContents)
        \/ Finish(t)
        \/ Abort(t)

SpecAbort == Init /\ [][NextAbort]_vars

\* mutant: the save is started and not awaited
AwaitsSaveNot == FALSE

\* await saveMessagesToDB(...): the handler's promise settles after the write
AwaitsSave == TRUE

\* the driver awaits onStepFinish: a handler whose promise is not settled
HandlerPending(t) == AwaitsSave /\ running[t] # <<>>

\* a step ends and its handler is invoked, up to the await of the write
StepBegin(t, contents) ==
    /\ pc[t] = "streaming"
    /\ Len(messages[t]) > 0
    /\ Len(steps[t]) + Len(running[t]) < StepBound
    /\ ~HandlerPending(t)
    /\ \E content \in contents : running' = [running EXCEPT ![t] = Append(@, content)]
    /\ UNCHANGED <<pc, status, session, chatSessionId, messages, assistantMessageId,
                   stepCount, userMessageSaved, stream, steps, request, db,
                   providerError, aborted, authVars>>

\* the write of the oldest running handler settles and the handler returns
StepSettle(t) ==
    /\ running[t] # <<>>
    /\ \E writeOk \in BOOLEAN : OnStepFinish(t, Head(running[t]), writeOk)
    /\ running' = [running EXCEPT ![t] = Tail(@)]

\* the stream ends once no handler is pending
FinishSettled(t) == ~HandlerPending(t) /\ Finish(t)

NextAwait ==
    \E t \in OneTurn :
        \/ POST(t)
        \/ StepBegin(t, LimitContents)
        \/ StepSettle(t)
        \/ FinishSettled(t)

SpecAwait == Init /\ [][NextAwait]_vars

\* one request whose single step carries any content of up to MaxItems items
NextNormalizer ==
    \E t \in OneTurn :
        \/ POST(t)
        \/ (steps[t] = <<>> /\ StepFinish(t, AllContents))

SpecNormalizer == Init /\ [][NextNormalizer]_vars

-----------------------------------------------------------------------------
(* What is stored, and what a turn produced *)

MessageRows(store, mid) ==
    {i \in DOMAIN store.messages : store.messages[i].id = mid}

PartRows(store, mid) ==
    {i \in DOMAIN store.parts : store.parts[i].messageId = mid}

OrderIndices(store, mid) ==
    {store.parts[i].order : i \in PartRows(store, mid)}

\* the normalized parts of the steps i.. of a turn, in step order
RECURSIVE PartsFrom(_, _)
PartsFrom(log, i) ==
    IF i > Len(log) THEN <<>> ELSE log[i].parts \o PartsFrom(log, i + 1)

TurnParts(t) == PartsFrom(steps[t], 1)

HasText(parts) == \E k \in DOMAIN parts : parts[k].type = "text"

\* the turn ended by the model's completion, without a provider error
Completed(t) == pc[t] = "finished" /\ stream[t].errors = {}

-----------------------------------------------------------------------------
(* C1: after a completed turn in which every step yielded a text part and  *)
(* every write succeeded, exactly one row of the assistant message is      *)
(* stored and the order indices of its parts are exactly 0..K-1, K the     *)
(* number of parts of all steps.                                           *)
C1_OneMessageDenseOrder ==
    \A t \in AllTurns :
        (/\ Completed(t)
         /\ \A i \in DOMAIN steps[t] :
                HasText(steps[t][i].parts) /\ steps[t][i].outcome = "saved")
        => /\ Cardinality(MessageRows(db, assistantMessageId[t])) = 1
           /\ OrderIndices(db, assistantMessageId[t]) = 0 .. (Len(TurnParts(t)) - 1)
           /\ Cardinality(PartRows(db, assistantMessageId[t])) = Len(TurnParts(t))


-----------------------------------------------------------------------------
(* C2: handing the batch of a step that was saved to the Writer once more  *)
(* leaves the stored messages and parts exactly as they are: no row is     *)
(* added, none is changed.                                                 *)
C2_RedeliveryIdempotent ==
    \A t \in AllTurns : \A i \in DOMAIN steps[t] :
        steps[t][i].outcome = "saved"
            => SaveMessagesToDB(db, steps[t][i].call) = db

C2_Witness ==
    \E t \in AllTurns :
        /\ Len(steps[t]) >= 2
        /\ steps[t][1].outcome = "saved" /\ Len(steps[t][1].parts) = 2
        /\ steps[t][2].outcome = "saved" /\ Len(steps[t][2].parts) = 1
        /\ Len(steps[t][1].call.messages) = 2
        /\ Cardinality(PartRows(db, assistantMessageId[t])) = 2

-----------------------------------------------------------------------------
(* C3: in a turn with a completed step and no failed write, the message    *)
(* that triggered the turn is in exactly one batch handed to the Writer,   *)
(* the batch of the first completed step.                                  *)
LastMessage(t) == messages[t][Len(messages[t])]

Handed(step, m) ==
    step.called /\ \E k \in DOMAIN step.call.messages : step.call.messages[k].id = m.id

C3_UserMessageOnce ==
    \A t \in AllTurns :
        (/\ Len(steps[t]) >= 1
         /\ LastMessage(t).role = "user"
         /\ \A i \in DOMAIN steps[t] : steps[t][i].outcome # "failed")
        => /\ Handed(steps[t][1], LastMessage(t))
           /\ \A i \in DOMAIN steps[t] : i > 1 => ~Handed(steps[t][i], LastMessage(t))

(* C3, where it holds: the same, in turns in which no step's normalization *)
(* raised either.                                                          *)
C3_UserMessageOnceNoRaise ==
    \A t \in AllTurns :
        (/\ Len(steps[t]) >= 1
         /\ LastMessage(t).role = "user"
         /\ \A i \in DOMAIN steps[t] : steps[t][i].outcome \in {"saved", "skipped"})
        => /\ Handed(steps[t][1], LastMessage(t))
           /\ \A i \in DOMAIN steps[t] : i > 1 => ~Handed(steps[t][i], LastMessage(t))

-----------------------------------------------------------------------------
(* C4: a failed write does not stop the turn. The step that failed leaves  *)
(* the turn streaming with the client stream open and free of a new error, *)
(* and every step after a failed one is normalized and, when it has a      *)
(* batch, handed to the Writer.                                            *)
StepFailedNow(t) ==
    /\ Len(steps'[t]) = Len(steps[t]) + 1
    /\ steps'[t][Len(steps'[t])].outcome = "failed"

LaterStepsHanded(t) ==
    \A i, j \in DOMAIN steps[t] :
        (i < j /\ steps[t][i].outcome = "failed")
            => /\ steps[t][j].threw = NormalizeContent(steps[t][j].content).threw
               /\ (~steps[t][j].threw /\ Len(steps[t][j].call.messages) > 0)
                    => steps[t][j].called

C4_FailureDoesNotAbort ==
    /\ [](\A t \in AllTurns : LaterStepsHanded(t))
    /\ [][\A t \in AllTurns :
            StepFailedNow(t) =>
                /\ pc'[t] = "streaming"
                /\ stream'[t] = stream[t]
                /\ stream'[t].state = "open"]_vars

C4_Witness ==
    \E t \in AllTurns :
        /\ Len(steps[t]) = 4
        /\ steps[t][1].outcome = "saved"
        /\ steps[t][2].outcome = "failed"
        /\ steps[t][3].outcome = "saved"
        /\ steps[t][4].outcome = "saved"
        /\ stream[t] = [state |-> "open", errors |-> {}]

-----------------------------------------------------------------------------
(* C5: after a completed turn without a failed write, the parts stored for *)
(* the assistant message, read by order index, are the concatenation of    *)
(* the steps' normalized parts in step order.                              *)
C5_StoredPartsAreConcatenation ==
    \A t \in AllTurns :
        (/\ Completed(t)
         /\ \A i \in DOMAIN steps[t] : steps[t][i].outcome \in {"saved", "skipped"})
        => LET expected == TurnParts(t)
               rows == PartRows(db, assistantMessageId[t])
           IN /\ Cardinality(rows) = Len(expected)
              /\ \A k \in DOMAIN expected :
                    \E i \in rows :
                        db.parts[i].order = k - 1 /\ db.parts[i].part = expected[k]

-----------------------------------------------------------------------------
(* C6: the assistant message identifier is set when the turn starts, and   *)
(* the assistant message every step builds and hands to the Writer, as     *)
(* well as the identifier passed along with it, is that identifier.        *)
BuiltMessage(step) == step.call.messages[Len(step.call.messages)]

-----------------------------------------------------------------------------
(* C7: a step whose content is one source item yields exactly one          *)
(* source-url part when url and title are present and mediaType and        *)
(* filename absent, exactly one source-document part when mediaType and    *)
(* filename are present and url and title absent, and no part when neither *)
(* pair is present.                                                        *)
UrlShape(c) == {"url", "title"} \subseteq c.keys
DocumentShape(c) == {"mediaType", "filename"} \subseteq c.keys

C7_SourceClassification ==
    \A t \in AllTurns : \A i \in DOMAIN steps[t] :
        LET s == steps[t][i] IN
        (Len(s.content) = 1 /\ s.content[1].type = "source")
        => LET c == s.content[1] IN
           /\ ~s.threw
           /\ (UrlShape(c) /\ c.keys \cap {"mediaType", "filename"} = {})
                => (Len(s.parts) = 1 /\ s.parts[1].type = "source-url")
           /\ (DocumentShape(c) /\ c.keys \cap {"url", "title"} = {})
                => (Len(s.parts) = 1 /\ s.parts[1].type = "source-document")
           /\ (~UrlShape(c) /\ ~DocumentShape(c)) => s.parts = <<>>

C7_Witness ==
    \E t \in AllTurns :
        /\ Len(steps[t]) = 1
        /\ steps[t][1].content = <<Item("source", {"mediaType", "filename"}, "")>>
        /\ Len(steps[t][1].parts) = 1
        /\ steps[t][1].parts[1].type = "source-document"
        /\ steps[t][1].outcome = "saved"

-----------------------------------------------------------------------------
(* C8: a step whose content is one tool-error item, whatever its error     *)
(* value, yields a tool part in state output-error with a non-empty error  *)
(* text.                                                                   *)
C8_ToolErrorTextNonEmpty ==
    \A t \in AllTurns : \A i \in DOMAIN steps[t] :
        LET s == steps[t][i] IN
        (Len(s.content) = 1 /\ s.content[1].type = "tool-error")
        => /\ ~s.threw
           /\ Len(s.parts) = 1
           /\ s.parts[1].state = "output-error"
           /\ s.parts[1].text # ""

-----------------------------------------------------------------------------
(* C9: a request without a session is answered 401, also when it has no    *)
(* chat id; a request with a session and no chat id is answered 400; in    *)
(* both cases no generation starts and nothing is handed to the Writer.    *)
Rejected(t) ==
    /\ pc[t] = "rejected"
    /\ stream[t].state = "none"
    /\ assistantMessageId[t] = NoId
    /\ steps[t] = <<>>
    /\ \A i \in DOMAIN db.messages : db.messages[i].sessionId # ChatOf(t)

C9_RejectedBeforeWork ==
    \A t \in AllTurns :
        request[t].arrived =>
            /\ ~request[t].hasSession => (status[t] = 401 /\ Rejected(t))
            /\ (request[t].hasSession /\ request[t].chatId = NoChatId)
                    => (status[t] = 400 /\ Rejected(t))

C9_Witness ==
    \E t \in AllTurns :
        /\ request[t].arrived
        /\ ~request[t].hasSession /\ request[t].chatId = NoChatId
        /\ status[t] = 401 /\ pc[t] = "rejected"

-----------------------------------------------------------------------------
(* C10: a storage error raised while a step's batch is written does not    *)
(* leave the handler: no error of the handler is on the client stream, the *)
(* response stays the streamed one, and the turn ends only by completion   *)
(* or by a provider error.                                                 *)
C10_StorageErrorSwallowed ==
    \A t \in AllTurns :
        (\E i \in DOMAIN steps[t] : steps[t][i].outcome = "failed")
        => /\ \A i \in DOMAIN steps[t] : ~steps[t][i].escaped
           /\ "handler" \notin stream[t].errors
           /\ status[t] = 200
           /\ pc[t] = "finished" => stream[t].state = "closed"

C10_Witness ==
    \E t \in AllTurns :
        /\ Completed(t)
        /\ stream[t].state = "closed"
        /\ steps[t][Len(steps[t])].outcome = "failed"

-----------------------------------------------------------------------------
(* C11: in any turn, failed writes included, once the write of some step   *)
(* has succeeded the message that triggered the turn is stored, in exactly *)
(* one row.                                                                *)
C11_UserMessageStoredOnce ==
    \A t \in AllTurns :
        (/\ Len(messages[t]) > 0
         /\ LastMessage(t).role = "user"
         /\ \E i \in DOMAIN steps[t] : steps[t][i].outcome = "saved")
        => Cardinality(MessageRows(db, LastMessage(t).id)) = 1

-----------------------------------------------------------------------------
(* C12: before the first step of a turn completes nothing of the turn is   *)
(* handed to the Writer, and a turn that ends without a completed step     *)
(* leaves nothing of it in the store.                                      *)
TurnMessageIds(t) ==
    {assistantMessageId[t]} \cup {messages[t][k].id : k \in DOMAIN messages[t]}

NothingStored(t) ==
    /\ \A i \in DOMAIN db.messages : db.messages[i].sessionId # ChatOf(t)
    /\ \A i \in DOMAIN db.parts : db.parts[i].messageId \notin TurnMessageIds(t)

C12_NothingBeforeFirstStep ==
    \A t \in AllTurns : steps[t] = <<>> => NothingStored(t)

C12_Witness ==
    \E t \in AllTurns :
        /\ pc[t] = "finished"
        /\ providerError[t] # NoError
        /\ steps[t] = <<>>
        /\ Len(messages[t]) > 0
        /\ NothingStored(t)

-----------------------------------------------------------------------------
(* C13: a turn has at most 5 step-completion events, hence at most 5       *)
(* batches are handed to the Writer, however many steps the model asks for.*)
Calls(t) == {i \in DOMAIN steps[t] : steps[t][i].called}

C13_AtMostFiveSteps ==
    \A t \in AllTurns : Len(steps[t]) <= 5 /\ Cardinality(Calls(t)) <= 5

C13_Witness ==
    \E t \in AllTurns :
        /\ pc[t] = "streaming"
        /\ Len(steps[t]) = 5
        /\ Cardinality(Calls(t)) = 5

-----------------------------------------------------------------------------
-----------------------------------------------------------------------------
(* C17: after k step-completion events of a turn its step counter is k,    *)
(* whether the writes succeeded, failed or were skipped.                   *)
C17_StepCounterCountsEvents ==
    \A t \in AllTurns : stepCount[t] = Len(steps[t])

-----------------------------------------------------------------------------
(* C18: the handler of a step, its write included, has returned before the *)
(* next step's handler is invoked: no two invocations of a turn overlap,   *)
(* at most one write of a turn is in flight, and the stream ends only      *)
(* after the last handler returned.                                        *)
C18_HandlersDoNotOverlap ==
    /\ [](\A t \in AllTurns :
            /\ Len(running[t]) <= 1
            /\ pc[t] = "finished" => running[t] = <<>>)
    /\ [][\A t \in AllTurns :
            Len(running'[t]) > Len(running[t]) => running[t] = <<>>]_vars

C18_Witness ==
    \E t \in AllTurns :
        /\ Len(steps[t]) >= 1
        /\ Len(running[t]) = 1
        /\ steps[t][Len(steps[t])].outcome = "failed"

-----------------------------------------------------------------------------
(* C19: the normalization of a step raises for no content list, and an     *)
(* item that maps to no part is skipped: every other item of the step      *)
(* still gets its part and the step's message is handed to the Writer.     *)
NoKind == [type |-> "none", state |-> ""]

\* the kind of part an item is to be given, NoKind when it is to be skipped
ExpectedKind(c) ==
    CASE c.type = "text" -> [type |-> "text", state |-> ""]
      [] c.type = "reasoning" -> [type |-> "reasoning", state |-> ""]
      [] c.type = "file" -> [type |-> "file", state |-> ""]
      [] c.type = "tool-result" ->
            [type |-> "tool-searchUserDocument", state |-> "output-available"]
      [] c.type = "tool-error" ->
            [type |-> "tool-searchUserDocument", state |-> "output-error"]
      [] c.type = "source" /\ UrlShape(c) -> [type |-> "source-url", state |-> ""]
      [] c.type = "source" /\ DocumentShape(c) ->
            [type |-> "source-document", state |-> ""]
      [] OTHER -> NoKind

Mappable(content) == {k \in DOMAIN content : ExpectedKind(content[k]) # NoKind}

C19_NormalizerNeverRaises ==
    \A t \in AllTurns : \A i \in DOMAIN steps[t] :
        LET s == steps[t][i] IN
        /\ ~s.threw
        /\ Len(s.parts) = Cardinality(Mappable(s.content))
        /\ Len(s.parts) > 0 => s.called

-----------------------------------------------------------------------------
(* C20: the parts of a step are in the order of the items they come from,  *)
(* an item gives at most one part, and every text, reasoning, file,        *)
(* tool-result and tool-error item gives exactly one part of its kind.     *)
AlwaysMapped == {"text", "reasoning", "file", "tool-result", "tool-error"}

\* f sends each part to the item it comes from
OrderedOrigin(s, f) ==
    /\ \A j, k \in DOMAIN s.parts : j < k => f[j] < f[k]
    /\ \A j \in DOMAIN s.parts :
        /\ s.parts[j].type = ExpectedKind(s.content[f[j]]).type
        /\ s.parts[j].state = ExpectedKind(s.content[f[j]]).state
    /\ \A k \in DOMAIN s.content :
        s.content[k].type \in AlwaysMapped => \E j \in DOMAIN s.parts : f[j] = k

PartsFollowItems(s) ==
    \E f \in [DOMAIN s.parts -> DOMAIN s.content] : OrderedOrigin(s, f)

C20_PartsFollowItems ==
    \A t \in AllTurns : \A i \in DOMAIN steps[t] : PartsFollowItems(steps[t][i])

\* the same, for the steps whose normalization does not raise
C20_PartsFollowItemsNoRaise ==
    \A t \in AllTurns : \A i \in DOMAIN steps[t] :
        ~steps[t][i].threw => PartsFollowItems(steps[t][i])

\* and no step that does not raise misses a part or fails to hand its message
C19_NoRaiseComplete ==
    \A t \in AllTurns : \A i \in DOMAIN steps[t] :
        LET s == steps[t][i] IN
        ~s.threw => /\ Len(s.parts) = Cardinality(Mappable(s.content))
                    /\ Len(s.parts) > 0 => s.called

-----------------------------------------------------------------------------
(* C15: no entry written through the logger holds a token, token hash or   *)
(* code value of a request, at the top level of its context or nested in   *)
(* it, whatever the route's outcome.                                       *)
RequestSecrets == {"secret-code", "secret-hash"}

LoggedValues(entry) ==
    {f.value : f \in entry.context}
        \cup UNION {{g.value : g \in f.nested} : f \in entry.context}

C15_NoSecretInLogs ==
    \A i \in DOMAIN logs : LoggedValues(logs[i]) \cap RequestSecrets = {}

-----------------------------------------------------------------------------
(* C16: a callback request without a token (no code and no token_hash) or  *)
(* without a type is redirected to / with an error parameter and the OTP   *)
(* verification is not invoked; when the verification returns an error,    *)
(* returns no session or raises, the redirect is to / with an error        *)
(* parameter, never to next.                                               *)
C16_FailedCallbackToRoot ==
    callback.arrived =>
        /\ ((callback.code = Absent /\ callback.tokenHash = Absent)
                \/ callback.type = Absent)
            => /\ callback.verify = "not-called"
               /\ callback.pathname = "/"
               /\ "error" \in callback.params
        /\ callback.verify \in {"error", "no-session", "threw"}
            => /\ callback.pathname = "/"
               /\ "error" \in callback.params
               /\ "message" \notin callback.params
               /\ callback.next # Absent => callback.pathname # callback.next

C16_Witness ==
    /\ callback.arrived
    /\ callback.code = "secret-code"
    /\ callback.type = "email"
    /\ callback.next = "/dashboard"
    /\ callback.verify = "threw"
    /\ callback.pathname = "/"
    /\ callback.params = {"error"}

-----------------------------------------------------------------------------
(* C21: every batch handed to the Writer holds 1 or 2 messages, at most    *)
(* one of role user and at most one of role assistant; an assistant        *)
(* message is in the batch exactly when the step normalized to at least    *)
(* one part; the Writer is not invoked for a step whose batch is empty.    *)
OfRole(batch, role) == {k \in DOMAIN batch : batch[k].role = role}

BatchWellFormed(s) ==
    /\ s.called =>
        /\ Len(s.call.messages) \in 1..2
        /\ Cardinality(OfRole(s.call.messages, "user")) <= 1
        /\ Cardinality(OfRole(s.call.messages, "assistant")) <= 1
        /\ (OfRole(s.call.messages, "assistant") # {}) <=> (Len(s.parts) > 0)
    /\ Len(s.call.messages) = 0 => ~s.called

C21_BatchShape ==
    \A t \in AllTurns : \A i \in DOMAIN steps[t] : BatchWellFormed(steps[t][i])

\* the same, for the turns whose message list ends in a user message
C21_BatchShapeUserLast ==
    \A t \in AllTurns :
        (Len(messages[t]) > 0 /\ LastMessage(t).role = "user")
        => \A i \in DOMAIN steps[t] : BatchWellFormed(steps[t][i])

-----------------------------------------------------------------------------
(* C22: a message put in a batch as the turn's user message has role user  *)
(* and is the most recent user-authored message of the request's message   *)
(* list, whatever the role of the list's last element.                     *)
UserAuthored(t) == {k \in DOMAIN messages[t] : messages[t][k].role = "user"}

\* the messages of a batch that come from the request's list
FromRequest(t, batch) == {k \in DOMAIN batch : batch[k].id # assistantMessageId[t]}

C22_UserMessageIsLatestUser ==
    \A t \in AllTurns : \A i \in DOMAIN steps[t] :
        LET batch == steps[t][i].call.messages IN
        steps[t][i].called =>
            \A k \in FromRequest(t, batch) :
                /\ batch[k].role = "user"
                /\ \E m \in UserAuthored(t) :
                    /\ batch[k] = messages[t][m]
                    /\ \A n \in UserAuthored(t) : n <= m

\* the same, for the turns whose message list ends in a user message
C22_UserLast ==
    \A t \in AllTurns :
        (Len(messages[t]) > 0 /\ LastMessage(t).role = "user")
        => \A i \in DOMAIN steps[t] :
            LET batch == steps[t][i].call.messages IN
            steps[t][i].called =>
                \A k \in FromRequest(t, batch) : batch[k] = LastMessage(t)

-----------------------------------------------------------------------------
(* C23: a part that is stored for a message is not changed, moved or       *)
(* removed by a later write of the turn; a later write only adds parts     *)
(* whose order index is larger than every index stored for the message.    *)
C23_StoredPartsAppendOnly ==
    [][/\ \A i \in DOMAIN db.parts :
            i \in DOMAIN db'.parts /\ db'.parts[i] = db.parts[i]
       /\ \A j \in DOMAIN db'.parts \ DOMAIN db.parts :
            \A o \in OrderIndices(db, db'.parts[j].messageId) :
                db'.parts[j].order > o]_vars

\* step 1 stored a text part at index 0; step 2 handed a tool part at index 0
\* and a second part, and only the second part was added
C23_Witness ==
    \E t \in AllTurns :
        /\ Len(steps[t]) = 2
        /\ steps[t][1].outcome = "saved" /\ steps[t][2].outcome = "saved"
        /\ steps[t][1].content = <<TextItem>>
        /\ steps[t][2].content = <<ToolResultItem, TextItem>>
        /\ OrderIndices(db, assistantMessageId[t]) = {0, 1}
        /\ \E i \in PartRows(db, assistantMessageId[t]) :
            db.parts[i].order = 0 /\ db.parts[i].part.type = "text"

-----------------------------------------------------------------------------
(* C24: two turns that run at the same time share no mutable state: under  *)
(* any interleaving of their steps a step of one turn reads its own step   *)
(* counter and leaves the other turn's step counter, user-message flag and *)
(* assistant message id as they are, and every batch a turn hands to the   *)
(* Writer carries that turn's session id, user id and assistant id.        *)
OwnIdentity(t, call) ==
    /\ call.chatSessionId = ChatOf(t)
    /\ call.userId = UserOf(t)
    /\ call.assistantMessageId = assistantMessageId[t]
    /\ call.assistantMessageId \in UuidOf(t)

C24_TurnsIndependent ==
    /\ [](\A t \in AllTurns : \A i \in DOMAIN steps[t] :
            steps[t][i].called => OwnIdentity(t, steps[t][i].call))
    /\ [][\A t \in AllTurns :
            steps'[t] # steps[t]
            => /\ steps'[t][Len(steps'[t])].call.isFirstStep = (stepCount[t] = 0)
               /\ \A u \in AllTurns \ {t} :
                    /\ stepCount'[u] = stepCount[u]
                    /\ userMessageSaved'[u] = userMessageSaved[u]
                    /\ assistantMessageId'[u] = assistantMessageId[u]
                    /\ steps'[u] = steps[u]]_vars

C24_Witness ==
    /\ pc["t1"] = "streaming" /\ pc["t2"] = "streaming"
    /\ Len(steps["t1"]) = 2 /\ Len(steps["t2"]) = 1
    /\ steps["t1"][2].outcome = "saved" /\ steps["t2"][1].outcome = "saved"
    /\ stepCount["t1"] = 2 /\ stepCount["t2"] = 1
    /\ \E i, j \in DOMAIN db.messages :
        i < j /\ db.messages[i].sessionId = "chat-2" /\ db.messages[j].sessionId = "chat-1"

-----------------------------------------------------------------------------
(* C25: once the caller's abort signal has fired, after some steps of the  *)
(* turn, no further step of the turn is started, and the messages and      *)
(* parts stored for the steps before the signal stay stored unchanged.     *)
StoredRowsKept ==
    /\ \A i \in DOMAIN db.messages :
        i \in DOMAIN db'.messages /\ db'.messages[i] = db.messages[i]
    /\ \A i \in DOMAIN db.parts :
        i \in DOMAIN db'.parts /\ db'.parts[i] = db.parts[i]

C25_AbortEndsGeneration ==
    [][\A t \in AllTurns :
            (aborted[t] /\ Len(steps[t]) >= 1)
            => steps'[t] = steps[t] /\ StoredRowsKept]_vars

\* what is stored when the signal fires, and after it, is not rolled back
C25_NoRollback ==
    [][\A t \in AllTurns : (aborted[t] \/ aborted'[t]) => StoredRowsKept]_vars

-----------------------------------------------------------------------------
(* C26: every response of the auth callback route is a redirect whose URL  *)
(* carries none of the parameters token_hash, code, type and next, on      *)
(* every path: missing parameters, verification error, session, no         *)
(* session, exception.                                                     *)
C26_RedirectCarriesNoToken ==
    callback.arrived =>
        /\ callback.pathname # ""
        /\ callback.params \cap {"token_hash", "code", "type", "next"} = {}
        /\ callback.params \in {{"error"}, {"message"}}

C26_Witness ==
    /\ callback.arrived
    /\ callback.code = "secret-code" /\ callback.tokenHash = "secret-hash"
    /\ callback.type = "recovery" /\ callback.next = "/account"
    /\ callback.verify = "session"
    /\ callback.pathname = "/account"
    /\ callback.params = {"message"}

-----------------------------------------------------------------------------
(* C27: when the write of a step fails the error is logged with the chat   *)
(* session id, the index of the failing step and the assistant message id, *)
(* and the index logged is the number of step-completion events of the     *)
(* turn before the failing step.                                           *)
C27_FailureLoggedWithContext ==
    \A t \in AllTurns : \A i \in DOMAIN steps[t] :
        steps[t][i].outcome = "failed"
        => /\ steps[t][i].logged # NoLog
           /\ {"chatSessionId", "step", "assistantMessageId"}
                \subseteq steps[t][i].logged.fields
           /\ steps[t][i].logged.step = i - 1

\* a failed write is logged, with the value of the step counter
C27_FailureLogged ==
    \A t \in AllTurns : \A i \in DOMAIN steps[t] :
        steps[t][i].outcome = "failed"
        => /\ steps[t][i].logged # NoLog
           /\ "step" \in steps[t][i].logged.fields

-----------------------------------------------------------------------------
(* C28: whenever the normalization of a step drops a source item that      *)
(* matches neither the URL shape nor the document shape, a warning is      *)
(* logged for that item.                                                   *)
DroppedSources(content) ==
    {k \in DOMAIN content :
        /\ content[k].type = "source"
        /\ ~UrlShape(content[k])
        /\ ~DocumentShape(content[k])}

C28_DroppedSourceWarned ==
    \A t \in AllTurns : \A i \in DOMAIN steps[t] :
        ~steps[t][i].threw
        => DroppedSources(steps[t][i].content) \subseteq steps[t][i].warnings

-----------------------------------------------------------------------------
(* C29: in every turn, failed writes and empty batches included, the       *)
(* isFirstStep flag is true for exactly one Writer call, the call whose    *)
(* batch holds the turn's user message, and false for every other call.    *)
FirstStepCalls(t) == {i \in Calls(t) : steps[t][i].call.isFirstStep}

HoldsUserMessage(t, i) ==
    \E k \in DOMAIN steps[t][i].call.messages :
        steps[t][i].call.messages[k] = LastMessage(t)

C29_IsFirstStepOnce ==
    \A t \in AllTurns :
        /\ Calls(t) # {} => Cardinality(FirstStepCalls(t)) = 1
        /\ \A i \in Calls(t) : steps[t][i].call.isFirstStep <=> HoldsUserMessage(t, i)

\* the call that holds the user message is always flagged
C29_UserMessageCallFlagged ==
    \A t \in AllTurns : \A i \in Calls(t) :
        HoldsUserMessage(t, i) => steps[t][i].call.isFirstStep

-----------------------------------------------------------------------------
(* C30: every redirect of the email confirmation route targets the origin  *)
(* of the incoming request, on every outcome and for every value of the    *)
(* next parameter.                                                         *)
C30_RedirectStaysOnOrigin ==
    confirm.arrived => confirm.target = confirm.origin

\* the redirects of the paths that do not end in a session go to /signin on
\* the origin of the request
C30_FailuresToSignin ==
    (confirm.arrived /\ confirm.exchange # "session")
    => /\ confirm.target = confirm.origin
       /\ confirm.pathname = "/signin"
       /\ confirm.params = {"error"}

====
